---- MODULE Spec2Model ----
(***************************************************************************)
(* Model of sourcesetmaker.py: a batch converter that enumerates the       *)
(* images of a folder, encodes each one into one bucket per target width   *)
(* plus an originalsize bucket, and writes a manifest.                     *)
(*                                                                         *)
(* A file is a record [stem, ext, caps, readable, width, height, mode,     *)
(* palette, data]: ext is the extension in lower case and caps says how    *)
(* the extension is actually spelled ("lower": .jpg, "upper": .JPG,        *)
(* "mixed": .Jpg).  An opened image is a record [kind |-> "image", width,  *)
(* height, mode, palette, data]; data is the row-major pixel sequence and  *)
(* is <<>> where the pixel content is not followed.                        *)
(***************************************************************************)
EXTENDS Integers, Sequences, FiniteSets, TLC

VARIABLES
    platform,       \* "posix" (case-sensitive glob) or "nt" (case-insensitive glob)
    folder,         \* what --folder names: "missing", "notdir" or "dir"
    files,          \* the files directly inside --folder
    widths,         \* args.widths, as given
    pc,             \* position of main: validate, enumerate, mkdirs, loop, done, exited
    image_files,    \* the list get_image_files returned
    width_dirs,     \* the keys of the dict width_dirs, in insertion order
    idx,            \* number of loop iterations of main completed
    successful_conversions,
    dirs,           \* directories that exist under --savepath
    entries,        \* the .webp files that exist under --savepath
    manifest,       \* <<>> or <<content of sourceset_info.txt>>
    manifest_writes,\* how often this run wrote sourceset_info.txt
    exit_status,    \* -1 while running, else the process exit status
    events,         \* log of this run's resize and encode calls
    run,            \* 1 for the first invocation, 2 for the repeated one
    first,          \* <<>> or <<outcome of the first invocation>>
    encInput,       \* convert_to_webp called on a path: the file at that path
    encResult       \* <<>> or <<what that call returned>>

vars == <<platform, folder, files, widths, pc, image_files, width_dirs, idx,
          successful_conversions, dirs, entries, manifest, manifest_writes,
          exit_status, events, run, first, encInput, encResult>>

mainVars == <<platform, folder, files, widths, pc, image_files, width_dirs, idx,
              successful_conversions, dirs, entries, manifest, manifest_writes,
              exit_status, events, run, first>>

---------------------------------------------------------------------------
(* Bounds of the model *)

MaxFiles == 2
MaxWidths == 2
WidthChoices == {320, 640}

(* Program constants *)

SUPPORTED_FORMATS == {"jpg", "jpeg", "png", "webp", "bmp", "tiff", "tif", "gif"}
DefaultQuality == 80
MantBits == 53

---------------------------------------------------------------------------
(* Python float arithmetic: int / int is the correctly rounded IEEE-754     *)
(* double quotient, int * float the correctly rounded product, int(x)      *)
(* truncates.  A positive double is [m, scale]: m the 53 mantissa bits,    *)
(* most significant first, value = m * 2^(-scale).  Operands are small     *)
(* enough (below 2^15) for every intermediate value to fit 31 bits.        *)

\* F(v), with v evaluated once
Bind(v, F(_)) == CHOOSE r \in {F(x) : x \in {v}} : TRUE

RECURSIVE Pow2Mod(_, _)
Pow2Mod(i, d) ==
    IF i = 0 THEN 1 % d
    ELSE IF i % 2 = 0
         THEN Bind(Pow2Mod(i \div 2, d), LAMBDA s : (s * s) % d)
         ELSE (2 * Pow2Mod(i - 1, d)) % d

\* (a * 2^i) mod d, and the i-th binary digit of a / d, for 0 < a < d
RemainderAt(a, d, i) == (a * Pow2Mod(i, d)) % d
QuotientBit(a, d, i) == (2 * RemainderAt(a, d, i - 1)) \div d

\* the number whose binary digits are bits[lo..hi]
RECURSIVE NatOf(_, _, _)
NatOf(bits, lo, hi) ==
    IF lo > hi THEN 0
    ELSE IF lo = hi THEN bits[lo]
    ELSE Bind((lo + hi) \div 2,
              LAMBDA mid : NatOf(bits, lo, mid) * 2 ^ (hi - mid) + NatOf(bits, mid + 1, hi))

\* bits + 1
Increment(bits) ==
    IF \A i \in 1..Len(bits) : bits[i] = 1
    THEN <<1>> \o [i \in 1..Len(bits) |-> 0]
    ELSE Bind(CHOOSE i \in 1..Len(bits) :
                  bits[i] = 0 /\ \A j \in (i + 1)..Len(bits) : bits[j] = 1,
              LAMBDA k : SubSeq(bits, 1, k - 1) \o <<1>>
                            \o [i \in 1..(Len(bits) - k) |-> 0])

\* round-to-nearest, ties-to-even, of bits * 2^(-scale) (+ sticky) to MantBits bits
RoundNearestEven(bits, sticky, scale) ==
    IF Len(bits) <= MantBits THEN [m |-> bits, scale |-> scale]
    ELSE LET top == SubSeq(bits, 1, MantBits)
             guard == bits[MantBits + 1]
             rest == sticky \/ \E i \in (MantBits + 2)..Len(bits) : bits[i] = 1
             up == guard = 1 /\ (rest \/ bits[MantBits] = 1)
             sc == scale - (Len(bits) - MantBits)
         IN Bind(IF up THEN Increment(top) ELSE top,
                 LAMBDA m1 : IF Len(m1) > MantBits
                             THEN [m |-> SubSeq(m1, 1, MantBits), scale |-> sc - 1]
                             ELSE [m |-> m1, scale |-> sc])

\* a / d as a double, 0 < a < d
TrueDivide(a, d) ==
    Bind(CHOOSE i \in 1..32 : /\ QuotientBit(a, d, i) = 1
                              /\ \A j \in 1..(i - 1) : QuotientBit(a, d, j) = 0,
         LAMBDA lead :
            Bind(SubSeq([j \in 1..(MantBits + 1) |-> QuotientBit(a, d, lead - 1 + j)],
                        1, MantBits + 1),
                 LAMBDA bits : RoundNearestEven(bits, RemainderAt(a, d, lead + MantBits) # 0,
                                                lead + MantBits)))

\* the j-th group of ten bits of a bit sequence, counted from the low end
LimbOf(bits, j) ==
    NatOf(bits, IF Len(bits) - 10 * j - 9 < 1 THEN 1 ELSE Len(bits) - 10 * j - 9,
          Len(bits) - 10 * j)

RECURSIVE ProductLimbs(_, _, _, _, _)
ProductLimbs(bits, k, j, carry, acc) ==
    IF 10 * j >= Len(bits) /\ carry = 0 THEN acc
    ELSE Bind(LimbOf(bits, j) * k + carry,
              LAMBDA v : ProductLimbs(bits, k, j + 1, v \div 1024, Append(acc, v % 1024)))

\* the bit of weight 2^p in a sequence of ten-bit limbs, lowest limb first
LimbBit(limbs, p) == (limbs[(p \div 10) + 1] \div 2 ^ (p % 10)) % 2

\* the exact product k * bits as a bit sequence, k >= 1
TimesInt(bits, k) ==
    Bind(ProductLimbs(bits, k, 0, 0, <<>>),
         LAMBDA limbs :
            Bind(CHOOSE p \in 0..(10 * Len(limbs) - 1) :
                    /\ LimbBit(limbs, p) = 1
                    /\ \A q \in (p + 1)..(10 * Len(limbs) - 1) : LimbBit(limbs, q) = 0,
                 LAMBDA top : SubSeq([i \in 1..(top + 1) |-> LimbBit(limbs, top + 1 - i)],
                                     1, top + 1)))

\* k * x as a double
FloatMul(k, x) ==
    Bind(TimesInt(x.m, k), LAMBDA product : RoundNearestEven(product, FALSE, x.scale))

\* int(x)
Truncate(x) ==
    IF Len(x.m) - x.scale <= 0 THEN 0 ELSE NatOf(x.m, 1, Len(x.m) - x.scale)

---------------------------------------------------------------------------
(* Images *)

\* Image.open(path) on a readable file
ImageOf(f) ==
    [kind |-> "image", width |-> f.width, height |-> f.height, mode |-> f.mode,
     palette |-> f.palette, data |-> f.data]

\* line 38-39: ratio = target_width / image.width; int(image.height * ratio)
new_height(image, target_width) ==
    Bind(TrueDivide(target_width, image.width),
         LAMBDA ratio : Bind(FloatMul(image.height, ratio), LAMBDA x : Truncate(x)))

\* Image.resize raises ValueError ("height and width must be > 0") for an
\* empty target size; otherwise it returns a new image of that size.
resize_image(image, target_width) ==
    IF image.width <= target_width
    THEN [raised |-> FALSE, img |-> image]
    ELSE Bind(new_height(image, target_width),
              LAMBDA h : IF h < 1
                         THEN [raised |-> TRUE]
                         ELSE [raised |-> FALSE,
                               img |-> [image EXCEPT !.width = target_width,
                                                     !.height = h, !.data = <<>>]])

\* ImageOpen taking an already opened image as it is
ImageOpenAccepting(fp) ==
    IF fp.kind = "path"
    THEN IF fp.file.readable THEN [ok |-> TRUE, img |-> ImageOf(fp.file)]
                             ELSE [ok |-> FALSE]
    ELSE [ok |-> TRUE, img |-> fp]

\* Image.open(fp): a path is opened and decoded; any other object is used as
\* a file object, and an Image has seek() but no read(), so prefix =
\* fp.read(16) raises AttributeError.
ImageOpen(fp) ==
    IF fp.kind = "path"
    THEN IF fp.file.readable THEN [ok |-> TRUE, img |-> ImageOf(fp.file)]
                             ELSE [ok |-> FALSE]
    ELSE [ok |-> FALSE]

White == <<255, 255, 255>>

\* Paste.c BLEND8: one channel of background out under source in with matte a
Blend(out, in, a) ==
    LET tmp == out * (255 - a) + in * a + 128
    IN ((tmp \div 256) + tmp) \div 256

\* im.convert('RGBA') of a palette image: look every index up in the palette
ExpandPalette(img) ==
    [img EXCEPT !.mode = "RGBA",
                !.data = [i \in 1..Len(img.data) |-> img.palette[img.data[i][1]]]]

\* im.convert('RGB') of a grey image
GreyToRGB(img) ==
    [img EXCEPT !.mode = "RGB",
                !.data = [i \in 1..Len(img.data) |->
                            <<img.data[i][1], img.data[i][1], img.data[i][1]>>]]

\* background.paste(img, mask=...): with a mask the bands are blended by it;
\* without one the first three stored bands of the source are copied (an LA
\* pixel is stored as L, L, L, A).
Paste(img, masked) ==
    [img EXCEPT !.mode = "RGB",
                !.data = [i \in 1..Len(img.data) |->
                    LET p == img.data[i]
                    IN IF masked
                       THEN <<Blend(255, p[1], p[4]), Blend(255, p[2], p[4]),
                              Blend(255, p[3], p[4])>>
                       ELSE IF img.mode = "LA" THEN <<p[1], p[1], p[1]>>
                       ELSE <<p[1], p[2], p[3]>>]]

\* lines 47-55 of convert_to_webp
Normalize(img) ==
    IF img.mode \in {"RGBA", "LA", "P"}
    THEN LET img2 == IF img.mode = "P" THEN ExpandPalette(img) ELSE img
         IN Paste(img2, img2.mode = "RGBA")
    ELSE IF img.mode # "RGB" THEN GreyToRGB(img)
    ELSE img

\* The file system under --savepath: img saved at <bucket>/<stem>.webp
Save(fs, bucket, stem, img) ==
    {e \in fs : ~(e.bucket = bucket /\ e.stem = stem)}
        \cup {[bucket |-> bucket, stem |-> stem, width |-> img.width,
               height |-> img.height, mode |-> img.mode, data |-> img.data]}

\* convert_to_webp(input_path, output_path, quality): every exception is
\* caught and turned into False.
convert_to_webp(input_path, bucket, stem, fs) ==
    LET o == ImageOpen(input_path)
    IN IF o.ok
       THEN [ok |-> TRUE, fs |-> Save(fs, bucket, stem, Normalize(o.img))]
       ELSE [ok |-> FALSE, fs |-> fs]

---------------------------------------------------------------------------
(* Enumeration *)

\* Path.glob('*' + pattern): the regular expression is matched ignoring case
\* on Windows only.
Matches(f, ext, caps) ==
    f.ext = ext /\ (platform = "nt" \/ f.caps = caps)

Glob(listing, ext, caps) == SelectSeq(listing, LAMBDA f : Matches(f, ext, caps))

\* get_image_files: extOrder is the order in which the set SUPPORTED_FORMATS
\* is iterated, listing the order in which the directory is listed.
RECURSIVE get_image_files(_, _)
get_image_files(listing, extOrder) ==
    IF extOrder = <<>> THEN <<>>
    ELSE Glob(listing, Head(extOrder), "lower")
            \o Glob(listing, Head(extOrder), "upper")
            \o get_image_files(listing, Tail(extOrder))

Orders(S) ==
    {s \in [1..Cardinality(S) -> S] : \A i, j \in 1..Cardinality(S) : i # j => s[i] # s[j]}

---------------------------------------------------------------------------
(* The inputs the model draws from *)

File(stem, ext, caps, readable, width, height, mode) ==
    [stem |-> stem, ext |-> ext, caps |-> caps, readable |-> readable,
     width |-> width, height |-> height, mode |-> mode,
     palette |-> <<>>, data |-> <<>>]

\* a.jpg, a.png (same stem), b.JPG (corrupt), c.Jpg, d.gif (one pixel high)
\* and notes.txt
Universe ==
    { File("a", "jpg", "lower", TRUE, 488, 732, "RGB"),
      File("a", "png", "lower", TRUE, 200, 100, "RGBA"),
      File("b", "jpg", "upper", FALSE, 0, 0, "RGB"),
      File("c", "jpg", "mixed", TRUE, 2000, 1000, "RGB"),
      File("d", "gif", "lower", TRUE, 2000, 1, "P"),
      File("notes", "txt", "lower", FALSE, 0, 0, "RGB") }

Folders == {S \in SUBSET Universe : Cardinality(S) <= MaxFiles}

WidthLists == UNION {[1..n -> WidthChoices] : n \in 1..MaxWidths}

NoFile == File("", "", "lower", FALSE, 0, 0, "RGB")

\* Small images whose pixels are followed through convert_to_webp
Levels == {0, 128, 255}
Colours == {<<0, 0, 0>>, <<200, 10, 30>>, <<255, 255, 255>>}
Palette == <<<<0, 0, 0, 0>>, <<200, 10, 30, 255>>, <<0, 0, 255, 128>>>>
Pixels(mode) ==
    CASE mode = "RGB" -> Colours
      [] mode = "RGBA" -> {c \o <<a>> : c \in Colours, a \in Levels}
      [] mode = "LA" -> {<<l, a>> : l \in Levels, a \in Levels}
      [] mode = "L" -> {<<l>> : l \in Levels}
      [] mode = "P" -> {<<i>> : i \in 1..Len(Palette)}

EncodeInputs ==
    UNION {{[File("img", "png", "lower", TRUE, 2, 1, mode)
                EXCEPT !.palette = IF mode = "P" THEN Palette ELSE <<>>,
                       !.data = <<p, q>>] : p \in Pixels(mode), q \in Pixels(mode)}
           : mode \in {"RGB", "RGBA", "LA", "L", "P"}}

---------------------------------------------------------------------------
(* main *)

RECURSIVE Sorted(_)
Sorted(seq) ==
    IF seq = <<>> THEN <<>>
    ELSE LET rest == Sorted(Tail(seq))
         IN SelectSeq(rest, LAMBDA x : x < Head(seq)) \o <<Head(seq)>>
                \o SelectSeq(rest, LAMBDA x : x >= Head(seq))

\* lines 118-122: the keys of the dict width_dirs, in insertion order
RECURSIVE DictKeys(_)
DictKeys(seq) ==
    IF seq = <<>> THEN <<>>
    ELSE LET n == Len(seq)
             front == DictKeys(SubSeq(seq, 1, n - 1))
         IN IF \E i \in 1..(n - 1) : seq[i] = seq[n] THEN front
            ELSE Append(front, seq[n])

Event(n, f, bucket, step, ok, img) ==
    [n |-> n, file |-> f, bucket |-> bucket, step |-> step, ok |-> ok,
     width |-> img.width, height |-> img.height]

\* width_variant with the else branch scaling the image up to the bucket width
width_variant_upscaling(original_img, width) ==
    IF original_img.width > width
    THEN resize_image(original_img, width)
    ELSE [raised |-> FALSE,
          img |-> [original_img EXCEPT !.width = width,
                      !.height = (original_img.height * width) \div original_img.width]]

\* lines 138-145: the image main hands to convert_to_webp for a width bucket
width_variant(original_img, width) ==
    IF original_img.width > width
    THEN resize_image(original_img, width)
    ELSE [raised |-> FALSE, img |-> original_img]

\* lines 137-145: the loop over width_dirs, left when resize_image raises
RECURSIVE width_loop(_, _, _, _, _)
width_loop(original_img, f, n, wd, st) ==
    IF wd = <<>> THEN st
    ELSE Bind(width_variant(original_img, Head(wd)),
              LAMBDA v :
                 IF v.raised
                 THEN [st EXCEPT !.raised = TRUE,
                                 !.events = Append(@, Event(n, f, ToString(Head(wd)),
                                                            "resize", FALSE, original_img))]
                 ELSE Bind(convert_to_webp(v.img, ToString(Head(wd)), f.stem, st.fs),
                           LAMBDA c :
                              Bind([st EXCEPT !.fs = c.fs,
                                              !.events = Append(@, Event(n, f, ToString(Head(wd)),
                                                                         "encode", c.ok, v.img))],
                                   LAMBDA st2 : width_loop(original_img, f, n, Tail(wd), st2))))

\* lines 147-150: the original-size version, and what it adds to the count
original_size(original_img, f, n, st) ==
    Bind(convert_to_webp(original_img, "originalsize", f.stem, st.fs),
         LAMBDA c : [fs |-> c.fs,
                     events |-> Append(st.events, Event(n, f, "originalsize", "encode",
                                                        c.ok, original_img)),
                     success |-> IF c.ok THEN 1 ELSE 0])

\* lines 132-154: one iteration of the loop over image_files; an exception
\* raised inside the with block ends the iteration
process_image(f, n, wd, fs) ==
    Bind(ImageOpen([kind |-> "path", file |-> f]),
         LAMBDA o :
            IF ~o.ok
            THEN [fs |-> fs, events |-> <<Event(n, f, "", "open", FALSE, f)>>, success |-> 0]
            ELSE Bind(width_loop(o.img, f, n, wd,
                                 [fs |-> fs, raised |-> FALSE,
                                  events |-> <<Event(n, f, "", "open", TRUE, o.img)>>]),
                      LAMBDA st : IF st.raised
                                  THEN [fs |-> st.fs, events |-> st.events, success |-> 0]
                                  ELSE original_size(o.img, f, n, st)))

MainInit ==
    /\ platform \in {"posix", "nt"}
    /\ folder \in {"missing", "notdir", "dir"}
    /\ files \in Folders
    /\ folder # "dir" => files = {}
    /\ widths \in WidthLists
    /\ pc = "validate"
    /\ image_files = <<>>
    /\ width_dirs = <<>>
    /\ idx = 0
    /\ successful_conversions = 0
    /\ dirs = {}
    /\ entries = {}
    /\ manifest = <<>>
    /\ manifest_writes = 0
    /\ exit_status = -1
    /\ events = <<>>
    /\ run = 1
    /\ first = <<>>

Init ==
    /\ MainInit
    /\ encInput = NoFile
    /\ encResult = <<>>

\* ValidateFolder with the output root created before the folder is checked
ValidateFolderAfterMkdir ==
    /\ pc = "validate"
    /\ dirs' = dirs \cup {"."}
    /\ IF folder # "dir"
       THEN pc' = "exited" /\ exit_status' = 1
       ELSE pc' = "enumerate" /\ UNCHANGED exit_status
    /\ UNCHANGED <<platform, folder, files, widths, image_files, width_dirs, idx,
                   successful_conversions, entries, manifest, manifest_writes,
                   events, run, first, encInput, encResult>>

\* lines 95-102
ValidateFolder ==
    /\ pc = "validate"
    /\ IF folder # "dir"
       THEN pc' = "exited" /\ exit_status' = 1
       ELSE pc' = "enumerate" /\ UNCHANGED exit_status
    /\ UNCHANGED <<platform, folder, files, widths, image_files, width_dirs, idx,
                   successful_conversions, dirs, entries, manifest, manifest_writes,
                   events, run, first, encInput, encResult>>

\* lines 105-111.  Extensions no file of the folder bears add nothing to the
\* list, so only the relative order of the others is chosen.
Enumerate ==
    /\ pc = "enumerate"
    /\ \E listing \in Orders(files) :
       \E extOrder \in Orders(SUPPORTED_FORMATS \cap {f.ext : f \in files}) :
       \E found \in {get_image_files(listing, extOrder)} :
             /\ image_files' = found
             /\ IF found = <<>>
                THEN pc' = "exited" /\ exit_status' = 1
                ELSE pc' = "mkdirs" /\ UNCHANGED exit_status
    /\ UNCHANGED <<platform, folder, files, widths, width_dirs, idx,
                   successful_conversions, dirs, entries, manifest, manifest_writes,
                   events, run, first, encInput, encResult>>

\* lines 113-129
CreateDirectories ==
    /\ pc = "mkdirs"
    /\ dirs' = dirs \cup {"."} \cup {ToString(widths[i]) : i \in 1..Len(widths)}
                    \cup {"originalsize"}
    /\ width_dirs' = DictKeys(widths)
    /\ successful_conversions' = 0
    /\ pc' = "loop"
    /\ UNCHANGED <<platform, folder, files, widths, image_files, idx, entries,
                   manifest, manifest_writes, exit_status, events, run, first,
                   encInput, encResult>>

\* ProcessImage without the try/except around the with block: an image that
\* cannot be processed ends the process
ProcessImageUncaught ==
    /\ pc = "loop"
    /\ idx < Len(image_files)
    /\ \E r \in {process_image(image_files[idx + 1], idx + 1, width_dirs, entries)} :
          /\ entries' = r.fs
          /\ events' = events \o r.events
          /\ successful_conversions' = successful_conversions + r.success
          /\ IF \E i \in 1..Len(r.events) :
                    r.events[i].step \in {"open", "resize"} /\ ~r.events[i].ok
             THEN pc' = "exited" /\ exit_status' = 1
             ELSE UNCHANGED <<pc, exit_status>>
    /\ idx' = idx + 1
    /\ UNCHANGED <<platform, folder, files, widths, image_files, width_dirs,
                   dirs, manifest, manifest_writes, run, first,
                   encInput, encResult>>

\* lines 131-154
ProcessImage ==
    /\ pc = "loop"
    /\ idx < Len(image_files)
    /\ \E r \in {process_image(image_files[idx + 1], idx + 1, width_dirs, entries)} :
          /\ entries' = r.fs
          /\ events' = events \o r.events
          /\ successful_conversions' = successful_conversions + r.success
    /\ idx' = idx + 1
    /\ UNCHANGED <<platform, folder, files, widths, pc, image_files, width_dirs,
                   dirs, manifest, manifest_writes, exit_status, run, first,
                   encInput, encResult>>

\* lines 156-175
WriteInfoFile ==
    /\ pc = "loop"
    /\ idx = Len(image_files)
    /\ manifest' = <<[source |-> "folder", output |-> "savepath",
                      widths |-> Sorted(widths), quality |-> DefaultQuality,
                      processed |-> Len(image_files),
                      successful |-> successful_conversions,
                      buckets |-> Sorted(widths)]>>
    /\ manifest_writes' = manifest_writes + 1
    /\ pc' = "done"
    /\ exit_status' = 0
    /\ UNCHANGED <<platform, folder, files, widths, image_files, width_dirs, idx,
                   successful_conversions, dirs, entries, events, run, first,
                   encInput, encResult>>

Next ==
    \/ ValidateFolder
    \/ Enumerate
    \/ CreateDirectories
    \/ ProcessImage
    \/ WriteInfoFile

Spec == Init /\ [][Next]_vars

\* The tool invoked a second time with the same arguments on the same folder
Outcome ==
    [exit_status |-> exit_status, manifest |-> manifest,
     found |-> Len(image_files), successful |-> successful_conversions,
     entries |-> entries, order |-> image_files]

Rerun ==
    /\ run = 1
    /\ pc \in {"done", "exited"}
    /\ first' = <<Outcome>>
    /\ run' = 2
    /\ pc' = "validate"
    /\ image_files' = <<>>
    /\ width_dirs' = <<>>
    /\ idx' = 0
    /\ successful_conversions' = 0
    /\ manifest_writes' = 0
    /\ exit_status' = -1
    /\ events' = <<>>
    /\ UNCHANGED <<platform, folder, files, widths, dirs, entries, manifest,
                   encInput, encResult>>

NextRerun == Next \/ Rerun

SpecRerun == Init /\ [][NextRerun]_vars

\* convert_to_webp applied to the path of a file
InitEncode ==
    /\ platform = "posix"
    /\ folder = "dir"
    /\ files = {}
    /\ widths = <<>>
    /\ pc = "idle"
    /\ image_files = <<>>
    /\ width_dirs = <<>>
    /\ idx = 0
    /\ successful_conversions = 0
    /\ dirs = {}
    /\ entries = {}
    /\ manifest = <<>>
    /\ manifest_writes = 0
    /\ exit_status = -1
    /\ events = <<>>
    /\ run = 1
    /\ first = <<>>
    /\ encInput \in EncodeInputs
    /\ encResult = <<>>

Encode ==
    /\ pc = "idle"
    /\ encResult = <<>>
    /\ encResult' = <<convert_to_webp([kind |-> "path", file |-> encInput],
                                      "originalsize", encInput.stem, {})>>
    /\ UNCHANGED <<mainVars, encInput>>

SpecEncode == InitEncode /\ [][Encode]_vars

---------------------------------------------------------------------------
(* Properties *)

Buckets == {ToString(widths[i]) : i \in 1..Len(widths)} \cup {"originalsize"}

EncodeEvents == {events[i] : i \in {j \in 1..Len(events) : events[j].step = "encode"}}

Supported(f) == f.ext \in SUPPORTED_FORMATS

Occurrences(f) == Cardinality({n \in 1..Len(image_files) : image_files[n] = f})

\* C1: when a run finishes, every enumerated image that opened has exactly
\* one entry <width>/<stem>.webp per configured width and exactly one entry
\* originalsize/<stem>.webp.
EveryOpenedImageYieldsAllEntries ==
    pc = "done" =>
        \A n \in 1..Len(image_files) :
            image_files[n].readable =>
                \A b \in Buckets :
                    Cardinality({e \in entries : e.bucket = b
                                    /\ e.stem = image_files[n].stem}) = 1

\* C2: an image wider than the target width is handed to the encoder for that
\* bucket with width targetWidth and height floor(sourceHeight * targetWidth /
\* sourceWidth).
ResizedVariantHasFloorHeight ==
    \A e \in EncodeEvents : \A t \in WidthChoices :
        (e.bucket = ToString(t) /\ e.file.width > t) =>
            /\ e.width = t
            /\ e.height = (e.file.height * t) \div e.file.width

\* C3: an image not wider than the target width is handed to the encoder for
\* that bucket unresized, and nothing encoded or written is wider than its
\* source image.
NarrowImageEncodedUnresized ==
    /\ \A e \in EncodeEvents : \A t \in WidthChoices :
          (e.bucket = ToString(t) /\ e.file.width <= t) =>
              e.width = e.file.width /\ e.height = e.file.height
    /\ \A e \in EncodeEvents : e.width <= e.file.width
    /\ \A en \in entries : \E f \in files : f.stem = en.stem /\ en.width <= f.width

NarrowImageEncoded ==
    \E e \in EncodeEvents : \E t \in WidthChoices :
        e.bucket = ToString(t) /\ e.file.width < t

\* C4: a missing folder, a folder that is no directory, or one without any
\* supported image ends the run with status 1 and nothing created: no output
\* root, no bucket, no originalsize directory, no manifest.
FatalStartupWritesNothing ==
    /\ exit_status = 1 => dirs = {} /\ entries = {} /\ manifest = <<>>
    /\ (folder # "dir" \/ \A f \in files : ~Supported(f)) =>
          /\ pc \in {"validate", "enumerate", "exited"}
          /\ pc = "exited" => exit_status = 1

ExitedOnFolderWithoutImages ==
    /\ pc = "exited"
    /\ exit_status = 1
    /\ folder = "dir"
    /\ files # {}

\* C5: an image that cannot be opened, or an encode that fails, never ends
\* the run: the loop goes on to every later image, the manifest is written
\* once, at the end, and the exit status is 0.
ImageErrorsNeverAbort ==
    /\ pc = "loop" => exit_status = -1 /\ (ENABLED ProcessImage \/ ENABLED WriteInfoFile)
    /\ pc = "exited" => idx = 0 /\ events = <<>>
    /\ manifest_writes = (IF pc = "done" THEN 1 ELSE 0)
    /\ pc = "done" =>
          /\ exit_status = 0
          /\ manifest # <<>>
          /\ \A n \in 1..Len(image_files) :
                \E i \in 1..Len(events) : events[i].n = n /\ events[i].step = "open"

RunCompletedAfterImageErrors ==
    /\ pc = "done"
    /\ \E i, j \in 1..Len(events) :
          /\ i < j
          /\ events[i].step = "open" /\ ~events[i].ok
          /\ events[j].step = "encode" /\ ~events[j].ok

\* C6: the manifest's Images processed is the number of enumerated images and
\* its Successful conversions the number of images whose original-size encode
\* succeeded; a folder holding a single readable image gives 1 and 1.
ManifestCounts ==
    pc = "done" =>
        /\ manifest[1].processed = Len(image_files)
        /\ manifest[1].successful =
              Cardinality({n \in 1..Len(image_files) :
                              \E e \in EncodeEvents :
                                  e.n = n /\ e.bucket = "originalsize" /\ e.ok})
        /\ (\E f \in files : files = {f} /\ f.readable /\ Supported(f)) =>
              manifest[1].processed = 1 /\ manifest[1].successful = 1

\* C7: convert_to_webp composites an image with an alpha channel (RGBA, LA,
\* or a palette expanded to RGBA) onto white by its alpha channel: the result
\* is RGB of the same size, white where the source is transparent and the
\* source colour where it is opaque; another non-RGB mode is converted to RGB
\* and RGB is left as it is.
SourceRGBA(f, i) ==
    LET p == f.data[i]
    IN CASE f.mode = "RGBA" -> p
         [] f.mode = "LA" -> <<p[1], p[1], p[1], p[2]>>
         [] f.mode = "P" -> f.palette[p[1]]
         [] f.mode = "L" -> <<p[1], p[1], p[1], 255>>
         [] f.mode = "RGB" -> <<p[1], p[2], p[3], 255>>

EncodeCompositesAlphaOntoWhite ==
    encResult # <<>> =>
        /\ encResult[1].ok
        /\ \A out \in encResult[1].fs :
              /\ out.mode = "RGB"
              /\ out.width = encInput.width /\ out.height = encInput.height
              /\ Len(out.data) = Len(encInput.data)
              /\ \A i \in 1..Len(encInput.data) :
                    LET src == SourceRGBA(encInput, i)
                    IN /\ src[4] = 0 => out.data[i] = White
                       /\ src[4] = 255 => out.data[i] = <<src[1], src[2], src[3]>>

\* C8: enumeration returns every file of the folder whose extension is, in
\* any letter case, a supported one, each exactly once, and no other file.
EnumerationExactlyOnce ==
    pc \in {"mkdirs", "loop", "done"} =>
        \A f \in files : Occurrences(f) = (IF Supported(f) THEN 1 ELSE 0)

FailedVariantSkipsOnlyItself ==
    \A n \in 1..idx :
        image_files[n].readable =>
            \A b \in Buckets :
                \E i \in 1..Len(events) :
                    /\ events[i].n = n
                    /\ events[i].bucket = b
                    /\ events[i].step \in {"resize", "encode"}

====
